---- MODULE Spec2Model ----
(***************************************************************************)
(* Model of basic_image_processing.py: the image functions (to_grayscale,  *)
(* get_properties, rotate_image, mirror_image, make_grid, detect_objects)  *)
(* and the calls the Streamlit script makes on the decoded buffer img_bgr. *)
(*                                                                         *)
(* A buffer (numpy ndarray) is a record [shape, data]: shape is the numpy  *)
(* shape tuple (<<h, w, 3>> for a colour image, <<h, w>> for a grayscale   *)
(* grid) and data maps <<row, col>> (0-based, as in the code) to a pixel,  *)
(* the tuple of its samples: <<b, g, r>>, or <<v>> in a 2-dimensional      *)
(* buffer.                                                                 *)
(***************************************************************************)
EXTENDS Integers, Sequences, FiniteSets, TLC

\* ---------------------------------------------------------------- bounds
MaxDim == 3          \* image height and width range over 1..MaxDim
MaxContours == 2     \* at most this many contours are extracted from an image
MaxGrid == 4         \* rows and cols of make_grid range over 1..MaxGrid
MaxMinArea == 4      \* min_area ranges over 0..MaxMinArea and the default
MaxChain == 4        \* longest chain of calls applied to one input buffer

DefaultMinArea == 500    \* def detect_objects(img_bgr, min_area=500)

None == [kind |-> "None"]
CvError == [kind |-> "cv2.error"]

\* --------------------------------------------------------------- buffers
Pos(h, w) == (0..(h - 1)) \X (0..(w - 1))

Height(b) == b.shape[1]
Width(b) == b.shape[2]

IsBuffer(b) == "shape" \in DOMAIN b

\* ndarray.copy(): a new array with the same shape and samples
ndarray_copy(b) == [shape |-> b.shape, data |-> b.data]

\* ndarray.size: the product of the shape's entries
RECURSIVE Product(_)
Product(s) == IF s = <<>> THEN 1 ELSE Head(s) * Product(Tail(s))

ndarray_size(b) == Product(b.shape)

\* ------------------------------------------------------ OpenCV primitives
\* cv2.cvtColor(img, COLOR_RGB2BGR) / COLOR_BGR2RGB: swaps the first and
\* third sample of every pixel of a 3-channel buffer
cvtColor_swapRB(b) ==
    IF Len(b.shape) = 3 /\ b.shape[3] = 3
    THEN [shape |-> b.shape,
          data |-> [p \in DOMAIN b.data |->
                      <<b.data[p][3], b.data[p][2], b.data[p][1]>>]]
    ELSE CvError

\* 8-bit luminance of a <<b, g, r>> pixel: OpenCV's fixed-point weights
\* 0.114, 0.587, 0.299 scaled by 2^14, rounded
Luma(px) == (px[1] * 1868 + px[2] * 9617 + px[3] * 4899 + 8192) \div 16384

\* cv2.cvtColor(img, COLOR_BGR2GRAY): a 2-dimensional buffer of luminances;
\* the conversion asserts 3 (or 4) input channels and raises cv2.error on a
\* 2-dimensional (1-channel) buffer
cvtColor_BGR2GRAY(b) ==
    IF Len(b.shape) = 3 /\ b.shape[3] = 3
    THEN [shape |-> <<b.shape[1], b.shape[2]>>,
          data |-> [p \in DOMAIN b.data |-> <<Luma(b.data[p])>>]]
    ELSE CvError

\* the shape after a quarter turn: height and width swapped, channels kept
TurnedShape(s) == [k \in DOMAIN s |-> IF k = 1 THEN s[2] ELSE IF k = 2 THEN s[1] ELSE s[k]]

\* cv2.rotate(img, ROTATE_90_CLOCKWISE): the top row becomes the right column
cv2_rotate_90_clockwise(b) ==
    LET h == Height(b)
        w == Width(b)
    IN [shape |-> TurnedShape(b.shape),
        data |-> [p \in Pos(w, h) |-> b.data[<<h - 1 - p[2], p[1]>>]]]

\* cv2.rotate(img, ROTATE_180)
cv2_rotate_180(b) ==
    LET h == Height(b)
        w == Width(b)
    IN [shape |-> b.shape,
        data |-> [p \in Pos(h, w) |-> b.data[<<h - 1 - p[1], w - 1 - p[2]>>]]]

\* cv2.rotate(img, ROTATE_90_COUNTERCLOCKWISE): the top row becomes the left
\* column, read bottom to top
cv2_rotate_90_counterclockwise(b) ==
    LET h == Height(b)
        w == Width(b)
    IN [shape |-> TurnedShape(b.shape),
        data |-> [p \in Pos(w, h) |-> b.data[<<p[2], w - 1 - p[1]>>]]]

\* cv2.flip(img, 1): every row's columns in reverse order
cv2_flip_horizontal(b) ==
    LET h == Height(b)
        w == Width(b)
    IN [shape |-> b.shape,
        data |-> [p \in Pos(h, w) |-> b.data[<<p[1], w - 1 - p[2]>>]]]

\* the colour (0, 255, 0) as stored in a buffer: the tuple for a 3-channel
\* buffer, its first component for a 2-dimensional one
Green(b) == IF Len(b.shape) = 3 THEN <<0, 255, 0>> ELSE <<0>>

\* writes colour into the pixels of `cells` that lie inside the buffer
Paint(b, cells) ==
    [shape |-> b.shape,
     data |-> [p \in DOMAIN b.data |-> IF p \in cells THEN Green(b) ELSE b.data[p]]]

\* cv2.line(img, (x1, y1), (x2, y2), color, 1) for the axis-parallel lines
\* the code draws: the pixels <<row, col>> between the end points; the part
\* outside the buffer is clipped
LineCells(pt1, pt2) ==
    {p \in (pt1[2]..pt2[2]) \X (pt1[1]..pt2[1]) : TRUE}

cv2_line(b, pt1, pt2) == Paint(b, LineCells(pt1, pt2))

\* cv2.rectangle(img, (x1, y1), (x2, y2), color, 2): the outline of the
\* rectangle with a 2-pixel stroke (the outline's pixels and the ring just
\* outside it), clipped to the buffer
RectCells(pt1, pt2) ==
    {p \in ((pt1[2] - 1)..(pt2[2] + 1)) \X ((pt1[1] - 1)..(pt2[1] + 1)) :
        ~ (/\ p[1] > pt1[2] /\ p[1] < pt2[2]
           /\ p[2] > pt1[1] /\ p[2] < pt2[1])}

cv2_rectangle(b, pt1, pt2) == Paint(b, RectCells(pt1, pt2))

\* ------------------------------------------------------------- contours
\* A contour is the sequence of its <<x, y>> points, as findContours
\* returns it.

Abs(n) == IF n < 0 THEN 0 - n ELSE n

MinOf(S) == CHOOSE m \in S : \A n \in S : m <= n
MaxOf(S) == CHOOSE m \in S : \A n \in S : m >= n

\* cv2.contourArea(c): the polygon's area by the shoelace formula, counted
\* in half area-units so that it stays an integer (contourArea = this / 2)
contourArea2(c) ==
    LET n == Len(c)
        nxt(k) == IF k = n THEN 1 ELSE k + 1
        cross[k \in 0..n] ==
            IF k = 0 THEN 0
            ELSE cross[k - 1] + c[k][1] * c[nxt(k)][2] - c[nxt(k)][1] * c[k][2]
    IN Abs(cross[n])

\* cv2.boundingRect(c): <<x, y, w, h>> of the smallest upright rectangle
\* holding every point
boundingRect(c) ==
    LET xs == {c[k][1] : k \in DOMAIN c}
        ys == {c[k][2] : k \in DOMAIN c}
    IN <<MinOf(xs), MinOf(ys), MaxOf(xs) - MinOf(xs) + 1, MaxOf(ys) - MinOf(ys) + 1>>

\* ------------------------------------------------- the program's functions
to_grayscale(img_bgr) == cvtColor_BGR2GRAY(img_bgr)

\* get_properties with the sample count taken as h * w
get_properties_hw(img_bgr) ==
    LET h == img_bgr.shape[1]
        w == img_bgr.shape[2]
        channels == IF Len(img_bgr.shape) = 3 THEN img_bgr.shape[3] ELSE 1
    IN [kind |-> "props",
        Width |-> w,
        Height |-> h,
        Channels |-> channels,
        Shape |-> img_bgr.shape,
        DataType |-> "uint8",
        TotalPixels |-> h * w]

get_properties(img_bgr) ==
    LET h == img_bgr.shape[1]
        w == img_bgr.shape[2]
        channels == IF Len(img_bgr.shape) = 3 THEN img_bgr.shape[3] ELSE 1
    IN [kind |-> "props",
        Width |-> w,
        Height |-> h,
        Channels |-> channels,
        Shape |-> img_bgr.shape,
        DataType |-> "uint8",
        TotalPixels |-> ndarray_size(img_bgr)]

\* rotate_image with the 180 branch calling ROTATE_90_CLOCKWISE
rotate_image_180as90(img_bgr, angle) ==
    IF angle = 90 THEN cv2_rotate_90_clockwise(img_bgr)
    ELSE IF angle = 180 THEN cv2_rotate_90_clockwise(img_bgr)
    ELSE IF angle = 270 THEN cv2_rotate_90_counterclockwise(img_bgr)
    ELSE img_bgr

\* rotate_image with the 270 branch calling ROTATE_180
rotate_image_270as180(img_bgr, angle) ==
    IF angle = 90 THEN cv2_rotate_90_clockwise(img_bgr)
    ELSE IF angle = 180 THEN cv2_rotate_180(img_bgr)
    ELSE IF angle = 270 THEN cv2_rotate_180(img_bgr)
    ELSE img_bgr

\* rotate_image comparing angle % 360 instead of angle
rotate_image_mod360(img_bgr, angle) ==
    IF angle % 360 = 90 THEN cv2_rotate_90_clockwise(img_bgr)
    ELSE IF angle % 360 = 180 THEN cv2_rotate_180(img_bgr)
    ELSE IF angle % 360 = 270 THEN cv2_rotate_90_counterclockwise(img_bgr)
    ELSE img_bgr

rotate_image(img_bgr, angle) ==
    IF angle = 90 THEN cv2_rotate_90_clockwise(img_bgr)
    ELSE IF angle = 180 THEN cv2_rotate_180(img_bgr)
    ELSE IF angle = 270 THEN cv2_rotate_90_counterclockwise(img_bgr)
    ELSE img_bgr

mirror_image(img_bgr) == cv2_flip_horizontal(img_bgr)

\* the horizontal loop as range(rows) instead of range(1, rows)
HorizontalLines_range0(w, rows, cell_h) ==
    [r \in 1..rows |-> <<<<0, (r - 1) * cell_h>>, <<w, (r - 1) * cell_h>>>>]

\* the cv2.line calls of make_grid's two loops, in order
HorizontalLines(w, rows, cell_h) ==
    [r \in 1..(rows - 1) |-> <<<<0, r * cell_h>>, <<w, r * cell_h>>>>]

VerticalLines(h, cols, cell_w) ==
    [c \in 1..(cols - 1) |-> <<<<c * cell_w, 0>>, <<c * cell_w, h>>>>]

RECURSIVE DrawLines(_, _)
DrawLines(b, calls) ==
    IF calls = <<>> THEN b
    ELSE DrawLines(cv2_line(b, Head(calls)[1], Head(calls)[2]), Tail(calls))

\* make_grid drawing on img_bgr itself (grid_img = img_bgr, no copy)
make_grid_nocopy(img_bgr, rows, cols) ==
    LET h == img_bgr.shape[1]
        w == img_bgr.shape[2]
        cell_h == h \div rows
        cell_w == w \div cols
        hlines == HorizontalLines(w, rows, cell_h)
        vlines == VerticalLines(h, cols, cell_w)
        drawn == DrawLines(DrawLines(img_bgr, hlines), vlines)
    IN [ret |-> drawn, arg |-> drawn, hlines |-> hlines, vlines |-> vlines]

\* make_grid returns grid_img; the record also carries the argument as the
\* call leaves it (arg) and the cv2.line calls made (hlines, vlines)
make_grid(img_bgr, rows, cols) ==
    LET h == img_bgr.shape[1]
        w == img_bgr.shape[2]
        cell_h == h \div rows
        cell_w == w \div cols
        grid_img == ndarray_copy(img_bgr)
        hlines == HorizontalLines(w, rows, cell_h)
        vlines == VerticalLines(h, cols, cell_w)
    IN [ret |-> DrawLines(DrawLines(grid_img, hlines), vlines),
        arg |-> img_bgr,
        hlines |-> hlines,
        vlines |-> vlines]

\* detect_objects, lines 84-85: the state the contour loop starts from
detect_start(img_bgr) ==
    [obj_img |-> ndarray_copy(img_bgr), count |-> 0, rects |-> <<>>, arg |-> img_bgr]

\* the loop body with the comparison inverted (area < min_area)
detect_body_inverted(st, c, min_area) ==
    LET area2 == contourArea2(c)
        box == boundingRect(c)
        pt1 == <<box[1], box[2]>>
        pt2 == <<box[1] + box[3], box[2] + box[4]>>
    IN IF area2 < 2 * min_area
       THEN [obj_img |-> cv2_rectangle(st.obj_img, pt1, pt2),
             count |-> st.count + 1,
             rects |-> Append(st.rects, <<pt1, pt2>>),
             arg |-> st.arg]
       ELSE st

\* the loop body with count += 1 outside the if
detect_body_countall(st, c, min_area) ==
    LET area2 == contourArea2(c)
        box == boundingRect(c)
        pt1 == <<box[1], box[2]>>
        pt2 == <<box[1] + box[3], box[2] + box[4]>>
    IN IF area2 > 2 * min_area
       THEN [obj_img |-> cv2_rectangle(st.obj_img, pt1, pt2),
             count |-> st.count + 1,
             rects |-> Append(st.rects, <<pt1, pt2>>),
             arg |-> st.arg]
       ELSE [st EXCEPT !.count = st.count + 1]

\* detect_objects, lines 87-91: one pass of the loop body on contour c;
\* rects lists the cv2.rectangle calls made on obj_img so far
detect_body(st, c, min_area) ==
    LET area2 == contourArea2(c)
        box == boundingRect(c)
        pt1 == <<box[1], box[2]>>
        pt2 == <<box[1] + box[3], box[2] + box[4]>>
    IN IF area2 > 2 * min_area
       THEN [obj_img |-> cv2_rectangle(st.obj_img, pt1, pt2),
             count |-> st.count + 1,
             rects |-> Append(st.rects, <<pt1, pt2>>),
             arg |-> st.arg]
       ELSE st

\* load_image_bgr: the file decoded to an RGB raster (PIL), then RGB -> BGR
load_image_bgr(uploaded_file) == cvtColor_swapRB(uploaded_file)

\* ---------------------------------------------------------------- inputs
Dims == 1..MaxDim

\* a decoded RGB raster whose pixels all differ
RampRGB(h, w) ==
    [shape |-> <<h, w, 3>>,
     data |-> [p \in Pos(h, w) |->
                 LET k == p[1] * w + p[2] + 1
                 IN <<(15 * k) % 256, (255 - 15 * k) % 256, 128>>]]

\* a decoded RGB raster of one colour
SolidRGB(h, w) ==
    [shape |-> <<h, w, 3>>, data |-> [p \in Pos(h, w) |-> <<200, 100, 50>>]]

IsSolid(b) == \A p, q \in DOMAIN b.data : b.data[p] = b.data[q]

UploadedFiles ==
    {RampRGB(h, w) : h \in Dims, w \in Dims} \cup {SolidRGB(h, w) : h \in Dims, w \in Dims}

\* a 2-dimensional (1-channel) buffer whose samples all differ
GrayRamp(h, w) ==
    [shape |-> <<h, w>>, data |-> [p \in Pos(h, w) |-> <<(15 * (p[1] * w + p[2] + 1)) % 256>>]]

\* the well-formed buffers the functions are composed on: colour and
\* grayscale, every height and width, all samples distinct
Buffers ==
    {load_image_bgr(RampRGB(h, w)) : h \in Dims, w \in Dims}
        \cup {GrayRamp(h, w) : h \in Dims, w \in Dims}

\* the contour of the square with corners (0, 0) and (k, k); a single point
\* when k = 0
SquareContour(k) ==
    IF k = 0 THEN << <<0, 0>> >>
    ELSE << <<0, 0>>, <<0, k>>, <<k, k>>, <<k, 0>> >>

SeqsUpTo(S, n) == UNION {[1..m -> S] : m \in 0..n}

Smaller(a, b) == IF a < b THEN a ELSE b

\* what blur + Canny + findContours(RETR_EXTERNAL) may extract from a buffer:
\* nothing from an image without edges, otherwise up to MaxContours square
\* contours that fit in the image, in any order
ContoursOf(b) ==
    IF IsSolid(b) THEN {<<>>}
    ELSE SeqsUpTo({SquareContour(k) : k \in 0..(Smaller(Height(b), Width(b)) - 1)},
                  MaxContours)

RadioAngles == {90, 180, 270}
Angles == RadioAngles \cup {0, 45, 360, -90}
GridSizes == 1..MaxGrid
MinAreas == (0..MaxMinArea) \cup {DefaultMinArea}

\* ------------------------------------------------------------- the session
VARIABLES
    pc,        \* "idle": no file uploaded; "ready": between calls;
               \* "loop": inside detect_objects' contour loop
    img_bgr,   \* the session's decoded buffer
    decoded,   \* img_bgr as load_image_bgr returned it
    contours,  \* the contours findContours extracts from img_bgr
    out,       \* the last call completed and what it returned (NoOut while
               \* detect_objects is running)
    min_area,  \* detect_objects: its argument
    idx,       \* detect_objects: position of the loop in contours
    obj_img,   \* detect_objects: the annotated copy
    count,     \* detect_objects: the counter
    rects,     \* detect_objects: the cv2.rectangle calls made on obj_img
    dets,      \* while detect_objects runs: min_area and count of the call
               \* completed just before it, if that was detect_objects too
    vals,      \* chain of calls: the input buffer and each call's result
    hist       \* chain of calls: the calls made

vars == <<pc, img_bgr, decoded, contours, out, min_area, idx, obj_img, count,
          rects, dets, vals, hist>>

detvars == <<min_area, idx, obj_img, count, rects>>
chainvars == <<vals, hist>>

NoOut == [call |-> "none"]

Init ==
    /\ pc = "idle"
    /\ img_bgr = None
    /\ decoded = None
    /\ contours = <<>>
    /\ out = NoOut
    /\ min_area = 0
    /\ idx = 0
    /\ obj_img = None
    /\ count = 0
    /\ rects = <<>>
    /\ dets = None
    /\ vals = <<>>
    /\ hist = <<>>

\* lines 101-105: a file is uploaded and the script runs from the top
Upload ==
    /\ pc = "idle"
    /\ \E f \in UploadedFiles :
         /\ img_bgr' = load_image_bgr(f)
         /\ decoded' = load_image_bgr(f)
         /\ \E cs \in ContoursOf(load_image_bgr(f)) : contours' = cs
    /\ pc' = "ready"
    /\ out' = NoOut
    /\ dets' = None
    /\ UNCHANGED <<detvars, chainvars>>

\* lines 127, 171
TabGrayscale ==
    /\ pc = "ready"
    /\ out' = [call |-> "to_grayscale", ret |-> to_grayscale(img_bgr)]
    /\ UNCHANGED <<pc, img_bgr, decoded, contours, dets, detvars, chainvars>>

\* lines 133, 174
TabProperties ==
    /\ pc = "ready"
    /\ out' = [call |-> "get_properties", ret |-> get_properties(img_bgr)]
    /\ UNCHANGED <<pc, img_bgr, decoded, contours, dets, detvars, chainvars>>

\* lines 140-141, 181-185
TabRotate ==
    /\ pc = "ready"
    /\ \E angle \in RadioAngles :
         out' = [call |-> "rotate_image", angle |-> angle,
                 ret |-> rotate_image(img_bgr, angle)]
    /\ UNCHANGED <<pc, img_bgr, decoded, contours, dets, detvars, chainvars>>

\* lines 147, 188
TabMirror ==
    /\ pc = "ready"
    /\ out' = [call |-> "mirror_image", ret |-> mirror_image(img_bgr)]
    /\ UNCHANGED <<pc, img_bgr, decoded, contours, dets, detvars, chainvars>>

\* lines 153, 191
TabGrid ==
    /\ pc = "ready"
    /\ \E rows \in GridSizes, cols \in GridSizes :
         LET r == make_grid(img_bgr, rows, cols)
         IN /\ img_bgr' = r.arg
            /\ out' = [call |-> "make_grid", rows |-> rows, cols |-> cols,
                       ret |-> r.ret, hlines |-> r.hlines, vlines |-> r.vlines]
    /\ UNCHANGED <<pc, decoded, contours, dets, detvars, chainvars>>

\* lines 159, 194 and 76-85: detect_objects is entered
DetectBegin ==
    /\ pc = "ready"
    /\ \E m \in MinAreas : min_area' = m
    /\ LET st == detect_start(img_bgr)
       IN /\ img_bgr' = st.arg
          /\ obj_img' = st.obj_img
          /\ count' = st.count
          /\ rects' = st.rects
    /\ idx' = 1
    /\ pc' = "loop"
    /\ out' = NoOut
    /\ dets' = IF out.call = "detect_objects"
               THEN [min_area |-> out.min_area, count |-> out.count]
               ELSE None
    /\ UNCHANGED <<decoded, contours, chainvars>>

\* lines 86-91: one pass of the contour loop
DetectStep ==
    /\ pc = "loop"
    /\ idx <= Len(contours)
    /\ LET st == detect_body([obj_img |-> obj_img, count |-> count,
                               rects |-> rects, arg |-> img_bgr],
                              contours[idx], min_area)
       IN /\ img_bgr' = st.arg
          /\ obj_img' = st.obj_img
          /\ count' = st.count
          /\ rects' = st.rects
    /\ idx' = idx + 1
    /\ UNCHANGED <<pc, decoded, contours, out, min_area, dets, chainvars>>

\* line 93: return obj_img, count
DetectReturn ==
    /\ pc = "loop"
    /\ idx > Len(contours)
    /\ out' = [call |-> "detect_objects", min_area |-> min_area,
               obj_img |-> obj_img, count |-> count, rects |-> rects]
    /\ dets' = None
    /\ pc' = "ready"
    /\ min_area' = 0
    /\ idx' = 0
    /\ obj_img' = None
    /\ count' = 0
    /\ rects' = <<>>
    /\ UNCHANGED <<img_bgr, decoded, contours, chainvars>>

\* lines 101, 198-199: the file is removed from the uploader
Clear ==
    /\ pc = "ready"
    /\ pc' = "idle"
    /\ img_bgr' = None
    /\ decoded' = None
    /\ contours' = <<>>
    /\ out' = NoOut
    /\ dets' = None
    /\ UNCHANGED <<detvars, chainvars>>

Next ==
    \/ Upload
    \/ Clear
    \/ TabGrayscale
    \/ TabProperties
    \/ TabRotate
    \/ TabMirror
    \/ TabGrid
    \/ DetectBegin
    \/ DetectStep
    \/ DetectReturn

Spec == Init /\ [][Next]_vars

\* ------------------------------------------------ the functions, composed
\* The functions called one after another, each on the buffer the previous
\* call returned, starting from any well-formed buffer: vals[1] is the
\* input, vals[n + 1] the result of the call hist[n].
InitChain ==
    /\ pc = "idle"
    /\ img_bgr = None
    /\ decoded = None
    /\ contours = <<>>
    /\ out = NoOut
    /\ min_area = 0
    /\ idx = 0
    /\ obj_img = None
    /\ count = 0
    /\ rects = <<>>
    /\ dets = None
    /\ \E x \in Buffers : vals = <<x>>
    /\ hist = <<>>

Cur == vals[Len(vals)]

CanCall == Len(hist) < MaxChain /\ IsBuffer(Cur)

sessionvars == <<pc, img_bgr, decoded, contours, out, dets, detvars>>

CallToGrayscale ==
    /\ CanCall
    /\ vals' = Append(vals, to_grayscale(Cur))
    /\ hist' = Append(hist, <<"to_grayscale">>)
    /\ UNCHANGED sessionvars

CallGetProperties ==
    /\ CanCall
    /\ vals' = Append(vals, get_properties(Cur))
    /\ hist' = Append(hist, <<"get_properties">>)
    /\ UNCHANGED sessionvars

CallRotate ==
    /\ CanCall
    /\ \E angle \in Angles :
         /\ vals' = Append(vals, rotate_image(Cur, angle))
         /\ hist' = Append(hist, <<"rotate_image", angle>>)
    /\ UNCHANGED sessionvars

CallMirror ==
    /\ CanCall
    /\ vals' = Append(vals, mirror_image(Cur))
    /\ hist' = Append(hist, <<"mirror_image">>)
    /\ UNCHANGED sessionvars

NextChain ==
    \/ CallToGrayscale
    \/ CallGetProperties
    \/ CallRotate
    \/ CallMirror

SpecChain == InitChain /\ [][NextChain]_vars

\* ------------------------------------------------------------ properties
IsCall(n, op) == hist[n][1] = op
IsRotate(n, angle) == hist[n][1] = "rotate_image" /\ hist[n][2] = angle

\* a buffer's dimensions as counted on its samples
NumRows(b) == Cardinality({p[1] : p \in DOMAIN b.data})
NumCols(b) == Cardinality({p[2] : p \in DOMAIN b.data})
NumChannels(b) == Len(b.data[<<0, 0>>])

\* C1: mirror_image twice, rotate_image by 180 twice and rotate_image by 90
\* four times each give back the buffer they started from, sample for sample.
C1_InverseLaws ==
    \A n \in 1..Len(hist) :
        /\ (n + 1 <= Len(hist) /\ IsCall(n, "mirror_image") /\ IsCall(n + 1, "mirror_image"))
              => vals[n + 2] = vals[n]
        /\ (n + 1 <= Len(hist) /\ IsRotate(n, 180) /\ IsRotate(n + 1, 180))
              => vals[n + 2] = vals[n]
        /\ (n + 3 <= Len(hist) /\ \A k \in n..(n + 3) : IsRotate(k, 90))
              => vals[n + 4] = vals[n]

\* four quarter turns of a non-square buffer of distinct pixels: every
\* intermediate buffer differs from the input, the last equals it
C1_Witness ==
    /\ Len(hist) = 4
    /\ \A k \in 1..4 : IsRotate(k, 90)
    /\ Height(vals[1]) # Width(vals[1])
    /\ ~ IsSolid(vals[1])
    /\ \A k \in 2..4 : vals[k] # vals[1]
    /\ vals[5] = vals[1]

\* C2: to_grayscale always returns a 2-dimensional (1-channel) buffer, and
\* returns a buffer that is already 1-channel unchanged, without an error.
C2_GrayscaleIdempotent ==
    \A n \in 1..Len(hist) :
        IsCall(n, "to_grayscale") =>
            /\ IsBuffer(vals[n + 1])
            /\ Len(vals[n + 1].shape) = 2
            /\ (Len(vals[n].shape) = 2 => vals[n + 1] = vals[n])

\* C6: rotate_image with an angle other than 90, 180, 270 returns its input:
\* same dimensions, same samples.
C6_OtherAngleIdentity ==
    \A n \in 1..Len(hist) :
        (IsCall(n, "rotate_image") /\ hist[n][2] \notin {90, 180, 270})
            => vals[n + 1] = vals[n]

\* -90 and 360 passed on a non-square buffer of distinct pixels
C6_Witness ==
    /\ Len(hist) >= 2
    /\ IsRotate(1, -90)
    /\ IsRotate(2, 360)
    /\ Height(vals[1]) # Width(vals[1])
    /\ ~ IsSolid(vals[1])
    /\ vals[3] = vals[1]

\* C8: rotate_image by 90 or 270 exchanges height and width, rotate_image by
\* 180 and mirror_image keep them; the channel count never changes. The
\* dimensions are counted on the samples and agree with the shape.
C8_DimensionLaws ==
    \A n \in 1..Len(hist) :
        LET a == vals[n]
            b == vals[n + 1]
        IN /\ (IsRotate(n, 90) \/ IsRotate(n, 270)) =>
                 /\ NumRows(b) = NumCols(a) /\ NumCols(b) = NumRows(a)
                 /\ Height(b) = Width(a) /\ Width(b) = Height(a)
                 /\ NumChannels(b) = NumChannels(a) /\ Len(b.shape) = Len(a.shape)
           /\ (IsRotate(n, 180) \/ IsCall(n, "mirror_image")) =>
                 /\ NumRows(b) = NumRows(a) /\ NumCols(b) = NumCols(a)
                 /\ b.shape = a.shape
                 /\ NumChannels(b) = NumChannels(a)

\* a non-square colour buffer turned by 270 and then by 180
C8_Witness ==
    /\ Len(hist) >= 2
    /\ IsRotate(1, 270)
    /\ IsRotate(2, 180)
    /\ vals[1].shape = <<2, 3, 3>>
    /\ vals[2].shape = <<3, 2, 3>>
    /\ vals[3].shape = <<3, 2, 3>>

\* C9: get_properties reports Width = W, Height = H, Channels = C (1 for a
\* 2-dimensional buffer) and Total pixels = H * W * C, with H, W and C
\* counted on the buffer's samples.
C9_Properties ==
    \A n \in 1..Len(hist) :
        IsCall(n, "get_properties") =>
            LET b == vals[n]
                props == vals[n + 1]
            IN /\ props.Width = NumCols(b)
               /\ props.Height = NumRows(b)
               /\ props.Channels = NumChannels(b)
               /\ (Len(b.shape) = 2 => props.Channels = 1)
               /\ props.TotalPixels = NumRows(b) * NumCols(b) * NumChannels(b)

\* the properties of a 2 x 3 colour buffer and of a 3 x 2 grayscale one
C9_Witness ==
    /\ Len(hist) >= 1
    /\ IsCall(Len(hist), "get_properties")
    /\ \/ /\ vals[Len(hist)].shape = <<2, 3, 3>>
          /\ Cur.Width = 3 /\ Cur.Height = 2 /\ Cur.Channels = 3
          /\ Cur.TotalPixels = 18
       \/ /\ vals[Len(hist)].shape = <<3, 2>>
          /\ Cur.Width = 2 /\ Cur.Height = 3 /\ Cur.Channels = 1
          /\ Cur.TotalPixels = 6

\* the rows of the horizontal cv2.line calls and the columns of the vertical
\* ones of the last make_grid call
LineRows == {out.hlines[r][1][2] : r \in DOMAIN out.hlines}
LineCols == {out.vlines[c][1][1] : c \in DOMAIN out.vlines}

\* make_grid drew rows - 1 horizontal lines on the rows r * (H div rows) and
\* cols - 1 vertical lines on the columns c * (W div cols): every pixel of
\* these rows and columns of the result is green, every other pixel is the
\* input's
GridLinePositions ==
    LET H == Height(decoded)
        W == Width(decoded)
    IN /\ Len(out.hlines) = out.rows - 1
       /\ Len(out.vlines) = out.cols - 1
       /\ \A r \in 1..(out.rows - 1) :
            /\ out.hlines[r][1][2] = r * (H \div out.rows)
            /\ out.hlines[r][2][2] = r * (H \div out.rows)
       /\ \A c \in 1..(out.cols - 1) :
            /\ out.vlines[c][1][1] = c * (W \div out.cols)
            /\ out.vlines[c][2][1] = c * (W \div out.cols)
       /\ out.ret.shape = decoded.shape
       /\ \A p \in Pos(H, W) :
            out.ret.data[p] = IF p[1] \in LineRows \/ p[2] \in LineCols
                              THEN <<0, 255, 0>>
                              ELSE decoded.data[p]

C5_InputUnchanged ==
    pc # "idle" => img_bgr = decoded

\* make_grid returned a buffer that differs from img_bgr, which is as decoded
C5_Witness ==
    /\ out.call = "make_grid"
    /\ out.ret # decoded
    /\ img_bgr = decoded

\* C3 as claimed: a pass of the loop boxes and counts its contour exactly
\* when the contour's area is at least min_area.
C3_KeptIffAtLeastMin ==
    [][(pc = "loop" /\ idx' = idx + 1) =>
         ((count' = count + 1 /\ Len(rects') = Len(rects) + 1)
            <=> contourArea2(contours[idx]) >= 2 * min_area)]_vars

\* C7: two calls of detect_objects on the same image with min_area a <= b:
\* the count for b is not greater than the count for a. Here one call has
\* returned dets.count for dets.min_area and the next has finished its loop.
C7_Monotone ==
    (pc = "loop" /\ idx > Len(contours) /\ "count" \in DOMAIN dets) =>
        /\ dets.min_area <= min_area => count <= dets.count
        /\ min_area <= dets.min_area => dets.count <= count

\* the second call, with the larger min_area, counted fewer contours
C7_Witness ==
    /\ pc = "loop"
    /\ idx > Len(contours)
    /\ "count" \in DOMAIN dets
    /\ dets.min_area < min_area
    /\ count < dets.count
    /\ count >= 1

\* C10: in the loop and at the return, 0 <= count <= number of contours
\* (indeed of contours passed so far) and count = number of rectangles drawn;
\* with count = 0, and so with no contour extracted or none whose area
\* reaches min_area, the annotated buffer equals the input sample for sample.
C10_CountInvariant ==
    /\ pc = "loop" =>
         /\ count >= 0
         /\ count <= idx - 1
         /\ count <= Len(contours)
         /\ count = Len(rects)
         /\ count = 0 => obj_img = img_bgr
    /\ out.call = "detect_objects" =>
         /\ out.count >= 0
         /\ out.count <= Len(contours)
         /\ out.count = Len(out.rects)
         /\ out.count = 0 => out.obj_img = img_bgr
         /\ (\A k \in DOMAIN contours :
                contourArea2(contours[k]) < 2 * out.min_area) => out.count = 0

\* a call that boxed one contour and skipped another has returned
C10_Witness ==
    /\ out.call = "detect_objects"
    /\ Len(contours) = 2
    /\ out.count = 1
    /\ Len(out.rects) = 1
    /\ out.obj_img # img_bgr

====
